---- MODULE Spec2Model ----
(***************************************************************************)
(* Model of coveragetracer: the block extractor (block.py), the coverage    *)
(* session of CoveragePyAnalyzer / BlockCoveragePyAnalyzer (line.py,        *)
(* block.py) and the ratio queries of LineCoverageReport and                *)
(* BlockCoverageReport.                                                     *)
(*                                                                         *)
(* Specifications: Spec (the session), SpecScope (the session as a context *)
(* manager), SpecReport (the reports over every data file), SpecSnapshot   *)
(* (line-level reports built by a caller), SpecScan (the constructor's     *)
(* directory scan), SpecBlock (comparisons of Blocks).                     *)
(***************************************************************************)
EXTENDS Integers, Sequences, FiniteSets, TLC

VARIABLES
    file_blocks,   \* BlockCoveragePyAnalyzer.file_blocks: file -> list of Block
    store,         \* the coverage data file self.output: measured file -> raw lines
    report,        \* the report returned by the last get_coverage / append_coverage
    last,          \* the last operation called and its arguments
    pre,           \* the data file as the last operation found it
    erased,        \* the data the most recent reset erased
    nops,          \* number of operations called so far
    scope,         \* where the caller is relative to "with analyzer:"
    scan,          \* the directory the constructor scans and what the scan printed
    cmp,           \* the operands and the result of a Block comparison
    pair,          \* two analyzers of one process and the data files on disk
    held           \* a report the caller kept, and the answers it gave then

vars ==
    <<file_blocks, store, report, last, pre, erased, nops, scope, scan, cmp,
      pair, held>>

----------------------------------------------------------------------------
(* Bounds *)

\* number of session operations in one behaviour
MaxOps == 2

\* length of the tests list handed to get_coverage
MaxTests == 2

----------------------------------------------------------------------------
(* Syntax trees (the ast module's nodes, reduced to what the visitor reads) *)

Last(s) == s[Len(s)]

\* a simple statement on line l
Simple(l) ==
    [type |-> "Pass", lineno |-> l, end_lineno |-> l,
     body |-> << >>, handlers |-> << >>, orelse |-> << >>, finalbody |-> << >>]

\* the last non-empty clause of a compound statement
LastClause(body, handlers, orelse, finalbody) ==
    IF finalbody # << >> THEN finalbody
    ELSE IF orelse # << >> THEN orelse
    ELSE IF handlers # << >> THEN handlers
    ELSE body

\* a compound statement whose header is on line l
Compound(type, l, body, handlers, orelse, finalbody) ==
    [type |-> type, lineno |-> l,
     end_lineno |-> Last(LastClause(body, handlers, orelse, finalbody)).end_lineno,
     body |-> body, handlers |-> handlers, orelse |-> orelse,
     finalbody |-> finalbody]

Module(body) ==
    [type |-> "Module", lineno |-> 0,
     end_lineno |-> IF body = << >> THEN 0 ELSE Last(body).end_lineno,
     body |-> body, handlers |-> << >>, orelse |-> << >>, finalbody |-> << >>]

----------------------------------------------------------------------------
(* The project under analysis: three source files *)

\* a.py
\*   1  def f():
\*   2      return 1
SourceA ==
    [parses |-> TRUE, nlines |-> 2,
     tree |-> Module(<< Compound("FunctionDef", 1, << Simple(2) >>,
                                 << >>, << >>, << >>) >>)]

\* b.py
\*    1  class K:
\*    2      def m(self, xs):
\*    3          for x in xs:
\*    4              if x: break
\*    5              with x:
\*    6                  pass
\*    7          else:
\*    8              pass
\*    9          try:
\*   10              while xs:
\*   11                  xs.pop()
\*   12          finally:
\*   13              pass
SourceB ==
    [parses |-> TRUE, nlines |-> 13,
     tree |-> Module(<<
        Compound("ClassDef", 1, <<
          Compound("FunctionDef", 2, <<
            Compound("For", 3,
              << Compound("If", 4, << Simple(4) >>, << >>, << >>, << >>),
                 Compound("With", 5, << Simple(6) >>, << >>, << >>, << >>) >>,
              << >>, << Simple(8) >>, << >>),
            Compound("Try", 9,
              << Compound("While", 10, << Simple(11) >>, << >>, << >>, << >>) >>,
              << >>, << >>, << Simple(13) >>)
          >>, << >>, << >>, << >>)
        >>, << >>, << >>, << >>) >>)]

\* e.py: an empty file (tests/test_blockanalyzer.py, test_empty_file)
SourceE == [parses |-> TRUE, nlines |-> 0, tree |-> Module(<< >>)]

\* test_file.py of tests/test_blockanalyzer.py (sample_code)
\*    1  class TestClass:
\*    2      def method(self):
\*    3          pass
\*    5  def function():
\*    6      if True:
\*    7          pass
\*    8      else:
\*    9          pass
\*   11  for i in range(5):
\*   12      pass
\*   13  else:
\*   14      pass
SourceC ==
    [parses |-> TRUE, nlines |-> 14,
     tree |-> Module(<<
        Compound("ClassDef", 1, <<
          Compound("FunctionDef", 2, << Simple(3) >>, << >>, << >>, << >>)
        >>, << >>, << >>, << >>),
        Compound("FunctionDef", 5, <<
          Compound("If", 6, << Simple(7) >>, << >>, << Simple(9) >>, << >>)
        >>, << >>, << >>, << >>),
        Compound("For", 11, << Simple(12) >>, << >>, << Simple(14) >>, << >>)
     >>)]

\* syntax_error.py of test_syntax_error_handling: ast.parse raises SyntaxError
\*    1  def func()
\*    2      return
SourceS == [parses |-> FALSE, nlines |-> 2, tree |-> Module(<< >>)]

\* d.py: the async forms, a try statement with all its clauses, and a
\* try statement with except* (ast.TryStar)
\*    1  async def g(xs):
\*    2      async with xs:
\*    3          async for x in xs:
\*    4              pass
\*    5          else:
\*    6              pass
\*    7      try:
\*    8          pass
\*    9      except E:
\*   10          while x:
\*   11              pass
\*   12      else:
\*   13          pass
\*   14      finally:
\*   15          pass
\*   16      try:
\*   17          pass
\*   18      except* E:
\*   19          if x:
\*   20              pass
SourceD ==
    [parses |-> TRUE, nlines |-> 20,
     tree |-> Module(<<
        Compound("AsyncFunctionDef", 1, <<
          Compound("AsyncWith", 2, <<
            Compound("AsyncFor", 3, << Simple(4) >>, << >>, << Simple(6) >>,
                     << >>) >>, << >>, << >>, << >>),
          Compound("Try", 7, << Simple(8) >>,
            << Compound("ExceptHandler", 9,
                 << Compound("While", 10, << Simple(11) >>, << >>, << >>, << >>) >>,
                 << >>, << >>, << >>) >>,
            << Simple(13) >>, << Simple(15) >>),
          Compound("TryStar", 16, << Simple(17) >>,
            << Compound("ExceptHandler", 18,
                 << Compound("If", 19, << Simple(20) >>, << >>, << >>, << >>) >>,
                 << >>, << >>, << >>) >>,
            << >>, << >>)
        >>, << >>, << >>, << >>) >>)]

\* the contents a file of a scanned directory can have, by name
ContentNames == {"A", "B", "C", "D", "E", "S"}

Content(name) ==
    CASE name = "A" -> SourceA
      [] name = "B" -> SourceB
      [] name = "C" -> SourceC
      [] name = "D" -> SourceD
      [] name = "E" -> SourceE
      [] name = "S" -> SourceS

\* the files of a directory, given the name of the content of each
Directory(named) == [f \in DOMAIN named |-> Content(named[f])]

ProjectFiles == {"a.py", "b.py", "e.py"}

\* the name of the content of each file of the sample project
ProjectContents ==
    [f \in ProjectFiles |->
        CASE f = "a.py" -> "A"
          [] f = "b.py" -> "B"
          [] f = "e.py" -> "E"]

Project ==
    [f \in ProjectFiles |->
        CASE f = "a.py" -> SourceA
          [] f = "b.py" -> SourceB
          [] f = "e.py" -> SourceE]

----------------------------------------------------------------------------
(* Block and BlockASTVisitor *)

Block(file_path, start_line, end_line, block_type, code) ==
    [file_path |-> file_path, start_line |-> start_line,
     end_line |-> end_line, type |-> block_type, code |-> code]

\* what Block.__eq__ compares and Block.__hash__ hashes
BlockKey(b) == <<b.file_path, b.start_line, b.end_line, b.type>>

\* a Python object: its class and its value
Object(cls, value) == [cls |-> cls, value |-> value]

\* mutant: the source text takes part in the comparison
Block__eq___ComparesCode(self, other) ==
    IF other.cls # "Block" THEN FALSE
    ELSE /\ BlockKey(self) = BlockKey(other.value)
         /\ self.code = other.value.code

\* Block.__eq__(self, other), other being any object
Block__eq__(self, other) ==
    IF other.cls # "Block" THEN FALSE
    ELSE /\ self.file_path = other.value.file_path
         /\ self.start_line = other.value.start_line
         /\ self.end_line = other.value.end_line
         /\ self.type = other.value.type

\* Block.__hash__: the hash of a tuple, kept as the tuple
Block__hash__(self) == <<self.file_path, self.start_line, self.end_line, self.type>>

\* mutant: the block ends where the whole statement ends
add_block_ToEndOfStatement(file, node, block_type) ==
    << Block(file, node.lineno, node.end_lineno, block_type,
             <<"unparse", node.lineno, node.end_lineno>>) >>

\* add_block: the node's line to the last line of its last body statement
add_block(file, node, block_type) ==
    << Block(file, node.lineno, Last(node.body).end_lineno, block_type,
             <<"unparse", node.lineno, node.end_lineno>>) >>

\* mutant: the Else block starts at the first else statement
add_else_block_FromFirstStatement(file, node) ==
    << Block(file, node.orelse[1].lineno, Last(node.orelse).end_lineno,
             "Else",
             <<"lines", node.orelse[1].lineno, Last(node.orelse).end_lineno>>) >>

\* add_else_block: the line before the first else statement to the last line
\* of the last else statement
add_else_block(file, node) ==
    << Block(file, node.orelse[1].lineno - 1, Last(node.orelse).end_lineno,
             "Else",
             <<"lines", node.orelse[1].lineno, Last(node.orelse).end_lineno>>) >>

\* the block of a finally clause, appended by visit_Try
add_finally_block(file, node) ==
    << Block(file, node.finalbody[1].lineno, Last(node.finalbody).end_lineno,
             "Finally",
             <<"lines", node.finalbody[1].lineno,
               Last(node.finalbody).end_lineno>>) >>

\* the name add_block gives to the block of a node type with a visit_ method
BlockTypeOf(type) ==
    CASE type = "FunctionDef" -> "Function"
      [] type = "ClassDef" -> "Class"
      [] type = "If" -> "If"
      [] type = "For" -> "For"
      [] type = "While" -> "While"
      [] type = "Try" -> "Try"
      [] type = "With" -> "With"
      [] type = "AsyncFunctionDef" -> "Async Function"
      [] type = "AsyncFor" -> "Async For"
      [] type = "AsyncWith" -> "Async With"

VisitedTypes ==
    {"FunctionDef", "ClassDef", "If", "For", "While", "Try", "With",
     "AsyncFunctionDef", "AsyncFor", "AsyncWith"}

\* the node types whose visit_ method looks at node.orelse
ElseTypes == {"If", "For", "While", "Try", "AsyncFor"}

\* the blocks a visit_ method appends for the node itself
OwnBlocks(file, node) ==
    IF node.type \notin VisitedTypes THEN << >>
    ELSE add_block(file, node, BlockTypeOf(node.type))
         \o (IF node.type \in ElseTypes /\ node.orelse # << >>
             THEN add_else_block(file, node) ELSE << >>)
         \o (IF node.type = "Try" /\ node.finalbody # << >>
             THEN add_finally_block(file, node) ELSE << >>)

RECURSIVE visit(_, _)
RECURSIVE VisitAll(_, _)

\* generic_visit: the children in the order of the node's fields
generic_visit(file, node) ==
    VisitAll(file, node.body) \o VisitAll(file, node.handlers)
    \o VisitAll(file, node.orelse) \o VisitAll(file, node.finalbody)

visit(file, node) == OwnBlocks(file, node) \o generic_visit(file, node)

VisitAll(file, nodes) ==
    IF nodes = << >> THEN << >>
    ELSE visit(file, nodes[1]) \o VisitAll(file, Tail(nodes))

\* get_code_blocks: the blocks of a file, none when it does not parse
get_code_blocks(file, source) ==
    IF source.parses THEN visit(file, source.tree) ELSE << >>

\* collect_code_blocks_for_directory: one entry for every file under the root
collect_code_blocks_for_directory(project) ==
    [f \in DOMAIN project |-> get_code_blocks(f, project[f])]

\* self.file_blocks[str(file)] = blocks
SetItem(mapping, key, value) ==
    [k \in DOMAIN mapping \cup {key} |-> IF k = key THEN value ELSE mapping[k]]

RECURSIVE rglob_loop_StopsAtError(_, _, _)

\* mutant: the first file that does not parse ends the scan
rglob_loop_StopsAtError(project, order, blocks) ==
    IF order = << >> THEN blocks
    ELSE IF ~project[order[1]].parses
    THEN SetItem(blocks, order[1], << >>)
    ELSE rglob_loop_StopsAtError(project, Tail(order),
             SetItem(blocks, order[1],
                     get_code_blocks(order[1], project[order[1]])))

RECURSIVE rglob_loop(_, _, _)

\* the loop of collect_code_blocks_for_directory over the files in the order
\* rglob yields them
rglob_loop(project, order, blocks) ==
    IF order = << >> THEN blocks
    ELSE rglob_loop(project, Tail(order),
             SetItem(blocks, order[1],
                     get_code_blocks(order[1], project[order[1]])))

\* what the except branch of get_code_blocks prints during the loop
SyntaxErrorsPrinted(project, order) ==
    [i \in 1..Len(SelectSeq(order, LAMBDA f : ~project[f].parses)) |->
        <<"Syntax error in file",
          SelectSeq(order, LAMBDA f : ~project[f].parses)[i]>>]

\* what the except branch of get_code_blocks keeps on the analyzer for the
\* caller: nothing, the exception is printed and dropped
SyntaxErrorsKept(project, order) == << >>

----------------------------------------------------------------------------
(* The coverage data file and what coverage.py reports from it *)

RECURSIVE StatementLines(_)

\* the first lines of the statements of a list of nodes
StatementLines(nodes) ==
    IF nodes = << >> THEN {}
    ELSE LET n == nodes[1] IN
         {n.lineno} \cup StatementLines(n.body) \cup StatementLines(n.handlers)
         \cup StatementLines(n.orelse) \cup StatementLines(n.finalbody)
         \cup StatementLines(Tail(nodes))

\* cov.analysis2(file)[1]: the executable lines of every project file
ExecutableLines ==
    [f \in ProjectFiles |-> StatementLines(Project[f].tree.body)]

\* an erased (absent) data file
EmptyStore == [f \in {} |-> {}]

\* the data one run of the harness (coverage run harness test) records, for
\* the tests of the sample project; the files are those the test loads (the
\* sample files lie in directories without __init__.py, which the run does
\* not list as unexecuted files)
NoTrace == EmptyStore                      \* the harness stops before the project
RunE == [f \in {"e.py"} |-> {}]            \* only the empty module is loaded
RunA == [f \in {"a.py"} |-> {1, 2}]        \* f() is called
RunB1 == [f \in {"b.py"} |-> {1, 2, 3, 4, 9, 10, 11, 12, 13}]  \* m([1]): break
RunB2 == [f \in {"b.py"} |-> {1, 2, 3, 8, 9, 10, 13}]          \* m([]): else

Traces == {NoTrace, RunE, RunA, RunB1, RunB2}

\* result.returncode of subprocess.run for the tests of the menu: the harness
\* exits with an error before the project is loaded (NoTrace), m([1]) of b.py
\* ends in an uncaught exception after its lines were recorded (RunB1), the
\* other tests exit with 0
returncode(test) == IF test \in {NoTrace, RunB1} THEN 1 ELSE 0

LinesOf(data, file) == IF file \in DOMAIN data THEN data[file] ELSE {}

\* coverage run --append: the run's data is added to the data file
Combine(data, trace) ==
    [f \in DOMAIN data \cup DOMAIN trace |->
        LinesOf(data, f) \cup LinesOf(trace, f)]

\* mutant: the --append flag is lost, every run starts from an empty data set
_run_command_for_test_NoAppend(data, append, trace) == trace

\* _run_command_for_test: coverage run [--append] harness test; without
\* --append the run starts from an empty data set
_run_command_for_test(data, append, trace) ==
    IF append THEN Combine(data, trace) ELSE trace

\* mutant: the erase command leaves the data file as it is
clean_coverage_Keeps(data) == data

\* clean_coverage: coverage erase
clean_coverage(data) == EmptyStore

\* get_all_executable_lines: the executable lines of every measured file
get_all_executable_lines(data) ==
    [f \in DOMAIN data |-> ExecutableLines[f]]

\* mutant: the raw lines are reported without the intersection
analyze_coverage_data_Raw(data) ==
    [coverage_data |-> data,
     total_executable_lines |-> get_all_executable_lines(data)]

\* analyze_coverage_data: (coverage_data, total_executable_lines)
analyze_coverage_data(data) ==
    LET total_executable_lines == get_all_executable_lines(data) IN
    [coverage_data |->
        [f \in DOMAIN data |-> total_executable_lines[f] \cap data[f]],
     total_executable_lines |-> total_executable_lines]

RECURSIVE RunTests(_, _, _)

\* the loop "for test in tests" of get_coverage
RunTests(data, append, tests) ==
    IF tests = << >> THEN data
    ELSE RunTests(_run_command_for_test(data, append, tests[1]), append,
                  Tail(tests))

\* mutant: --append is never added to the command
GetCoverageStore_NeverAppend(data, tests, clean) ==
    RunTests(IF clean THEN clean_coverage(data) ELSE data, FALSE, tests)

\* the data file after get_coverage(tests, clean)
GetCoverageStore(data, tests, clean) ==
    RunTests(IF clean THEN clean_coverage(data) ELSE data,
             Len(tests) > 1, tests)

\* mutant: append_coverage erases the data file before the run
AppendCoverageStore_Erases(data, test) ==
    _run_command_for_test(clean_coverage(data), TRUE, test)

\* the data file after append_coverage(test)
AppendCoverageStore(data, test) == _run_command_for_test(data, TRUE, test)

\* Report.__init__(command): no method of the package assigns successful or
\* raised_exception after it
Report(command) ==
    [command |-> command, successful |-> "None", raised_exception |-> "None"]

\* the report the block analyzer builds from the line analyzer's result; the
\* line-level report is its first two fields
MakeReport(data, blocks) ==
    LET r == analyze_coverage_data(data) IN
    [valid |-> TRUE,
     coverage_data |-> r.coverage_data,
     total_executable_lines |-> r.total_executable_lines,
     total_executable_blocks |-> blocks,
     command |-> Report("CoverageReport").command,
     successful |-> Report("CoverageReport").successful,
     raised_exception |-> Report("CoverageReport").raised_exception]

NoReport ==
    [valid |-> FALSE, coverage_data |-> EmptyStore,
     total_executable_lines |-> EmptyStore,
     total_executable_blocks |-> EmptyStore,
     command |-> Report("").command,
     successful |-> Report("").successful,
     raised_exception |-> Report("").raised_exception]

---------------------------------------------------------------------------------------------------------------------------------------------------
(* Ratios: what Python's true division returns *)

RECURSIVE GCD(_, _)
GCD(m, n) == IF n = 0 THEN m ELSE GCD(n, m % n)

\* a float result, kept as the fraction in lowest terms
Ratio(n, d) == [error |-> "", num |-> n \div GCD(n, d), den |-> d \div GCD(n, d)]

\* the literal 0.0
Zero == [error |-> "", num |-> 0, den |-> 1]

Raised(e) == [error |-> e, num |-> 0, den |-> 0]

\* covered / total
Div(n, d) == IF d = 0 THEN Raised("ZeroDivisionError") ELSE Ratio(n, d)

\* sum(len(v) for v in mapping.values()) for a mapping of sets
RECURSIVE SumCard(_)
SumCard(m) ==
    IF DOMAIN m = {} THEN 0
    ELSE LET f == CHOOSE x \in DOMAIN m : TRUE IN
         Cardinality(m[f]) + SumCard([g \in DOMAIN m \ {f} |-> m[g]])

\* sum(len(v) for v in mapping.values()) for a mapping of lists
RECURSIVE SumLen(_)
SumLen(m) ==
    IF DOMAIN m = {} THEN 0
    ELSE LET f == CHOOSE x \in DOMAIN m : TRUE IN
         Len(m[f]) + SumLen([g \in DOMAIN m \ {f} |-> m[g]])

----------------------------------------------------------------------------
(* LineCoverageReport *)

LineCoverageReport_get_file_coverage(r, file) ==
    IF file \notin DOMAIN r.coverage_data THEN Zero
    ELSE IF file \notin DOMAIN r.total_executable_lines THEN Raised("KeyError")
    ELSE Div(Cardinality(r.coverage_data[file]),
             Cardinality(r.total_executable_lines[file]))

\* the mean of a mapping of ratios; an error of an entry is the result
RECURSIVE SumRatios(_)
SumRatios(m) ==
    IF DOMAIN m = {} THEN Zero
    ELSE LET f == CHOOSE x \in DOMAIN m : TRUE
             rest == SumRatios([g \in DOMAIN m \ {f} |-> m[g]]) IN
         IF m[f].error # "" THEN m[f]
         ELSE IF rest.error # "" THEN rest
         ELSE Ratio(m[f].num * rest.den + rest.num * m[f].den,
                    m[f].den * rest.den)

MeanRatio(m) ==
    LET total == SumRatios(m) IN
    IF DOMAIN m = {} THEN Raised("ZeroDivisionError")
    ELSE IF total.error # "" THEN total
    ELSE Ratio(total.num, total.den * Cardinality(DOMAIN m))

\* mutant: the mean of the per-file ratios
LineCoverageReport_get_total_coverage_Mean(r) ==
    MeanRatio([f \in DOMAIN r.total_executable_lines |->
                  LineCoverageReport_get_file_coverage(r, f)])

LineCoverageReport_get_total_coverage(r) ==
    Div(SumCard(r.coverage_data), SumCard(r.total_executable_lines))

----------------------------------------------------------------------------
(* BlockCoverageReport *)

\* total_executable_blocks.get(file, [])
BlocksOf(r, file) ==
    IF file \in DOMAIN r.total_executable_blocks
    THEN r.total_executable_blocks[file] ELSE << >>

\* mutant: the range starts at the header line
HasEvidence_WithHeader(block, covered_lines) ==
    \E line \in block.start_line..block.end_line : line \in covered_lines

\* mutant: only the last line of the block is evidence
HasEvidence_LastLineOnly(block, covered_lines) ==
    /\ block.start_line < block.end_line
    /\ block.end_line \in covered_lines

\* any(line in covered_lines for line in range(start_line + 1, end_line + 1))
HasEvidence(block, covered_lines) ==
    \E line \in (block.start_line + 1)..block.end_line : line \in covered_lines

\* _get_covered_blocks: the set of the covered blocks of a file, a set under
\* Block.__eq__ and Block.__hash__
_get_covered_blocks(r, file) ==
    LET covered_lines == LinesOf(r.coverage_data, file)
        blocks == BlocksOf(r, file) IN
    {BlockKey(blocks[i]) :
        i \in {j \in 1..Len(blocks) : HasEvidence(blocks[j], covered_lines)}}

is_block_covered(r, block) ==
    BlockKey(block) \in _get_covered_blocks(r, block.file_path)

\* mutant: the division is not guarded
BlockCoverageReport_get_file_coverage_Unguarded(r, file) ==
    Div(Cardinality(_get_covered_blocks(r, file)), Len(BlocksOf(r, file)))

BlockCoverageReport_get_file_coverage(r, file) ==
    LET total_blocks == Len(BlocksOf(r, file))
        covered_blocks == Cardinality(_get_covered_blocks(r, file)) IN
    IF total_blocks > 0 THEN Div(covered_blocks, total_blocks) ELSE Zero

\* the number of covered blocks over all files of the catalogue
CoveredBlocks(r) ==
    SumCard([f \in DOMAIN r.total_executable_blocks |->
                _get_covered_blocks(r, f)])

\* mutant: the mean of the per-file ratios
BlockCoverageReport_get_total_coverage_Mean(r) ==
    IF SumLen(r.total_executable_blocks) = 0 THEN Zero
    ELSE MeanRatio([f \in DOMAIN r.total_executable_blocks |->
                       BlockCoverageReport_get_file_coverage(r, f)])

BlockCoverageReport_get_total_coverage(r) ==
    LET total_blocks == SumLen(r.total_executable_blocks)
        covered_blocks == CoveredBlocks(r) IN
    IF total_blocks > 0 THEN Div(covered_blocks, total_blocks) ELSE Zero

-----
(* The session *)

\* the tests lists of at most n tests
RECURSIVE TestLists(_)
TestLists(n) ==
    IF n = 0 THEN {<< >>}
    ELSE LET shorter == TestLists(n - 1) IN
         shorter \cup {Append(l, t) : l \in {x \in shorter : Len(x) = n - 1},
                                      t \in Traces}

\* the arguments get_coverage is called with
TestInputs == TestLists(MaxTests)

\* data an earlier session left in the data file: lines of a.py and b.py,
\* line 7 of b.py (the "else:" line) among them
Leftover ==
    [f \in {"a.py", "b.py"} |->
        IF f = "a.py" THEN {1} ELSE {1, 2, 3, 4, 5, 6, 7, 8}]

NoOp == [op |-> "init", tests |-> << >>, clean |-> FALSE]

\* the constructor's scan of the directory: the name of the content of
\* each file found, the order rglob yields the files in, whether the scan has
\* run, the lines it printed, the errors it kept for the caller
Scan(files, order, done, stdout, kept) ==
    [files |-> files, order |-> order, done |-> done, stdout |-> stdout,
     kept |-> kept]

\* the order rglob yields the files of the sample project in
ProjectOrder == <<"a.py", "b.py", "e.py">>

\* no second analyzer exists
NoPair ==
    [disk |-> EmptyStore, sessions |-> EmptyStore, calls |-> 0,
     actor |-> "none", overlapped |-> FALSE]

\* no comparison of Blocks is under way
\* the caller holds no report
NoHeld == [valid |-> FALSE, report |-> NoReport, answers |-> << >>]

NoCmp ==
    [self |-> "None", other |-> "None", done |-> FALSE, eq |-> FALSE,
     hash_self |-> "None", hash_other |-> "None"]

\* the data file a session finds at construction: absent, or left by an
\* earlier session on the same path
Init ==
    /\ file_blocks = collect_code_blocks_for_directory(Project)
    /\ store \in {EmptyStore, Leftover}
    /\ report = NoReport
    /\ last = NoOp
    /\ pre = store
    /\ erased = EmptyStore
    /\ nops = 0
    /\ scope = "outside"
    /\ scan = Scan(ProjectContents, ProjectOrder, TRUE, << >>, << >>)
    /\ cmp = NoCmp
    /\ pair = NoPair
    /\ held = NoHeld

\* mutant: reset also empties the block lists of the analyzer
reset_ForgetsBlocks ==
    /\ nops < MaxOps
    /\ store' = clean_coverage(store)
    /\ file_blocks' = [f \in DOMAIN file_blocks |-> << >>]
    /\ last' = [op |-> "reset", tests |-> << >>, clean |-> FALSE]
    /\ pre' = store
    /\ erased' = store
    /\ nops' = nops + 1
    /\ UNCHANGED <<report, scope, scan, cmp, pair, held>>

reset ==
    /\ nops < MaxOps
    /\ store' = clean_coverage(store)
    /\ last' = [op |-> "reset", tests |-> << >>, clean |-> FALSE]
    /\ pre' = store
    /\ erased' = store
    /\ nops' = nops + 1
    /\ UNCHANGED <<file_blocks, report, scope, scan, cmp, pair, held>>

get_coverage(tests, clean) ==
    /\ nops < MaxOps
    /\ store' = GetCoverageStore(store, tests, clean)
    /\ report' = MakeReport(store', file_blocks)
    /\ last' = [op |-> "get_coverage", tests |-> tests, clean |-> clean]
    /\ pre' = store
    /\ nops' = nops + 1
    /\ UNCHANGED <<file_blocks, erased, scope, scan, cmp, pair, held>>

append_coverage(test) ==
    /\ nops < MaxOps
    /\ store' = AppendCoverageStore(store, test)
    /\ report' = MakeReport(store', file_blocks)
    /\ last' = [op |-> "append_coverage", tests |-> <<test>>, clean |-> FALSE]
    /\ pre' = store
    /\ nops' = nops + 1
    /\ UNCHANGED <<file_blocks, erased, scope, scan, cmp, pair, held>>

Next ==
    \/ reset
    \/ \E tests \in TestInputs, clean \in BOOLEAN : get_coverage(tests, clean)
    \/ \E test \in Traces : append_coverage(test)

Spec == Init /\ [][Next]_vars

----------------------------------------------------------------------------
(* The session as a context manager: with analyzer: <body>                 *)

\* the exception the body of the with statement ends with, if any
ExcTypes == {"None", "Exception"}

\* __enter__: self.reset(), return self
__enter__ ==
    /\ scope = "outside"
    /\ store' = clean_coverage(store)
    /\ scope' = "inside"
    /\ last' = [op |-> "__enter__", tests |-> << >>, clean |-> FALSE]
    /\ pre' = store
    /\ erased' = store
    /\ UNCHANGED <<file_blocks, report, nops, scan, cmp, pair, held>>

\* mutant: the data file is erased only when the body ended normally
ExitStore_KeepsOnError(data, exc_type) ==
    IF exc_type = "None" THEN clean_coverage(data) ELSE data

\* the data file __exit__(exc_type, exc_val, exc_tb) leaves: self.reset()
ExitStore(data, exc_type) == clean_coverage(data)

\* __exit__: called when the body ends, normally or by an exception, which
\* it does not swallow (it returns None)
__exit__(exc_type) ==
    /\ scope = "inside"
    /\ store' = ExitStore(store, exc_type)
    /\ scope' = "exited"
    /\ last' = [op |-> "__exit__", tests |-> << >>, clean |-> FALSE,
                exc_type |-> exc_type]
    /\ pre' = store
    /\ erased' = store
    /\ UNCHANGED <<file_blocks, report, nops, scan, cmp, pair, held>>

\* the calls of the body of the with statement
with_body == scope = "inside" /\ Next

NextScope ==
    \/ __enter__
    \/ with_body
    \/ \E exc_type \in ExcTypes : __exit__(exc_type)

SpecScope == Init /\ [][NextScope]_vars

---------------------------------------------------------------------------------------------------------------------------------------------------
(* The reports as functions of the snapshot: every content of the data     *)
(* file over the lines of the project, analysed once                        *)

FileLines(f) == SUBSET (1..Project[f].nlines)

\* the projects a report is built for: the sample project, and a project of
\* the empty file alone
Projects == {Project, [f \in {"e.py"} |-> SourceE]}

InitReport ==
    /\ \E project \in Projects :
       /\ file_blocks = collect_code_blocks_for_directory(project)
       /\ scan = Scan([f \in DOMAIN project |-> ProjectContents[f]],
                      SelectSeq(ProjectOrder, LAMBDA f : f \in DOMAIN project),
                      TRUE, << >>, << >>)
       /\ \E M \in SUBSET DOMAIN project :
          \E la \in FileLines("a.py"), lb \in FileLines("b.py"),
             le \in FileLines("e.py") :
             /\ "a.py" \notin M => la = {}
             /\ "b.py" \notin M => lb = {}
             /\ "e.py" \notin M => le = {}
             /\ store = [f \in M |-> CASE f = "a.py" -> la
                                       [] f = "b.py" -> lb
                                       [] f = "e.py" -> le]
    /\ report = NoReport
    /\ last = NoOp
    /\ pre = store
    /\ erased = EmptyStore
    /\ nops = 0
    /\ scope = "outside"
    /\ cmp = NoCmp
    /\ pair = NoPair
    /\ held = NoHeld

\* analyze_coverage_data and the construction of the report, as the last
\* statements of get_coverage and append_coverage run them
analyze ==
    /\ ~report.valid
    /\ report' = MakeReport(store, file_blocks)
    /\ last' = [op |-> "analyze", tests |-> << >>, clean |-> FALSE]
    /\ nops' = nops + 1
    /\ UNCHANGED <<file_blocks, store, pre, erased, scope, scan, cmp, pair, held>>

NextReport == analyze

SpecReport == InitReport /\ [][NextReport]_vars

----------------------------------------------------------------------------
(* The constructor's scan of a directory: every directory of at most three *)
(* files with the sample contents, in every order rglob can yield them     *)

ScanFiles == {"a.py", "b.py", "c.py"}

\* the directories: which files exist, and the content of each
Directories == UNION {[M -> ContentNames] : M \in SUBSET ScanFiles}

\* the sequences that list every file of a set once
Orders(files) ==
    {o \in [1..Cardinality(files) -> files] :
        \A i, j \in DOMAIN o : i # j => o[i] # o[j]}

\* before the constructor runs: self.file_blocks = {}
InitScan ==
    /\ file_blocks = EmptyStore
    /\ \E named \in Directories : \E order \in Orders(DOMAIN named) :
          scan = Scan(named, order, FALSE, << >>, << >>)
    /\ store = EmptyStore
    /\ report = NoReport
    /\ last = NoOp
    /\ pre = EmptyStore
    /\ erased = EmptyStore
    /\ nops = 0
    /\ scope = "outside"
    /\ cmp = NoCmp
    /\ pair = NoPair
    /\ held = NoHeld

\* BlockCoveragePyAnalyzer.__init__: the scan of project_root
collect ==
    /\ ~scan.done
    /\ file_blocks' = rglob_loop(Directory(scan.files), scan.order, file_blocks)
    /\ scan' = Scan(scan.files, scan.order, TRUE,
                    SyntaxErrorsPrinted(Directory(scan.files), scan.order),
                    SyntaxErrorsKept(Directory(scan.files), scan.order))
    /\ last' = [op |-> "collect", tests |-> << >>, clean |-> FALSE]
    /\ UNCHANGED <<store, report, pre, erased, nops, scope, cmp, pair, held>>

NextScan == collect

SpecScan == InitScan /\ [][NextScan]_vars

----------------------------------------------------------------------------
(* Two analyzers with different data files in one process: each method is  *)
(* the sequence of its subprocess calls and its analysis, and the steps of *)
(* the two analyzers interleave                                            *)

Sessions == {"one", "two"}

\* self.output of each analyzer
Output(s) == IF s = "one" THEN "one/.coverage" ELSE "two/.coverage"

Paths == {Output(s) : s \in Sessions}

\* mutant: every analyzer works on the data file of the first
DataFile_OfFirst(session) == Output("one")

\* --data-file={self.output}
DataFile(session) == session.output

Erase == [cmd |-> "erase", append |-> FALSE, test |-> NoTrace]
Run(append, test) == [cmd |-> "run", append |-> append, test |-> test]
Analyze == [cmd |-> "analyze", append |-> FALSE, test |-> NoTrace]

\* the subprocess calls and the analysis a method makes, in order
StepsOf(call) ==
    CASE call.op = "reset" -> << Erase >>
      [] call.op = "get_coverage" ->
            (IF call.clean THEN << Erase >> ELSE << >>)
            \o [i \in 1..Len(call.tests) |->
                   Run(Len(call.tests) > 1, call.tests[i])]
            \o << Analyze >>
      [] call.op = "append_coverage" -> << Run(TRUE, call.tests[1]), Analyze >>

\* the data file a method leaves when nothing else runs
AloneStore(data, call) ==
    CASE call.op = "reset" -> clean_coverage(data)
      [] call.op = "get_coverage" -> GetCoverageStore(data, call.tests, call.clean)
      [] call.op = "append_coverage" -> AppendCoverageStore(data, call.tests[1])

\* the tests the analyzers run
PairTests == {RunA, RunB2}

\* the calls an analyzer makes
Calls(s) ==
    {[op |-> "reset", tests |-> << >>, clean |-> FALSE]}
    \cup {[op |-> "get_coverage", tests |-> tests, clean |-> clean] :
             tests \in UNION {[1..n -> PairTests] : n \in 0..MaxTests},
             clean \in BOOLEAN}
    \cup {[op |-> "append_coverage", tests |-> <<test>>, clean |-> FALSE] :
             test \in PairTests}

InitPair ==
    /\ \E disk \in [Paths -> {EmptyStore, Leftover}] :
          pair = [disk |-> disk,
                  sessions |-> [s \in Sessions |->
                      [output |-> Output(s), todo |-> << >>,
                       report |-> NoReport, alone |-> disk[Output(s)],
                       alone_report |-> NoReport]],
                  calls |-> 0, actor |-> "none", overlapped |-> FALSE]
    /\ file_blocks = collect_code_blocks_for_directory(Project)
    /\ scan = Scan(ProjectContents, ProjectOrder, TRUE, << >>, << >>)
    /\ store = EmptyStore
    /\ report = NoReport
    /\ last = NoOp
    /\ pre = EmptyStore
    /\ erased = EmptyStore
    /\ nops = 0
    /\ scope = "outside"
    /\ cmp = NoCmp
    /\ held = NoHeld

\* analyzer s enters a method; alone and alone_report follow what the
\* method does to a data file no one else touches
call(s, c) ==
    /\ pair.calls < MaxOps
    /\ pair.sessions[s].todo = << >>
    /\ LET alone == AloneStore(pair.sessions[s].alone, c) IN
       pair' = [pair EXCEPT
                  !.sessions[s].todo = StepsOf(c),
                  !.sessions[s].alone = alone,
                  !.sessions[s].alone_report =
                      IF c.op = "reset" THEN @ ELSE MakeReport(alone, file_blocks),
                  !.calls = @ + 1,
                  !.actor = s,
                  !.overlapped =
                      @ \/ \E t \in Sessions \ {s} : pair.sessions[t].todo # << >>]
    /\ UNCHANGED <<file_blocks, store, report, last, pre, erased, nops, scope,
                   scan, cmp, held>>

\* analyzer s runs the next subprocess of its method, or its analysis
step(s) ==
    /\ pair.sessions[s].todo # << >>
    /\ LET st == Head(pair.sessions[s].todo)
           path == DataFile(pair.sessions[s])
           data == pair.disk[path] IN
       pair' = [pair EXCEPT
                  !.sessions[s].todo = Tail(@),
                  !.disk[path] =
                      CASE st.cmd = "erase" -> clean_coverage(data)
                        [] st.cmd = "run" ->
                              _run_command_for_test(data, st.append, st.test)
                        [] st.cmd = "analyze" -> data,
                  !.sessions[s].report =
                      IF st.cmd = "analyze" THEN MakeReport(data, file_blocks)
                      ELSE @,
                  !.actor = s]
    /\ UNCHANGED <<file_blocks, store, report, last, pre, erased, nops, scope,
                   scan, cmp, held>>

NextPair ==
    \E s \in Sessions :
        \/ \E c \in Calls(s) : call(s, c)
        \/ step(s)

SpecPair == InitPair /\ [][NextPair]_vars

----------------------------------------------------------------------------
(* Line-level reports built by a caller: LineCoverageReport(coverage_data,  *)
(* total_executable_lines) takes any two mappings                          *)

\* the mappings of at most two files to lines of a.py
SnapshotMaps ==
    UNION {[M -> SUBSET (1..SourceA.nlines)] : M \in SUBSET {"a.py", "b.py"}}

InitSnapshot ==
    /\ report = NoReport
    /\ file_blocks = EmptyStore
    /\ scan = Scan(EmptyStore, << >>, FALSE, << >>, << >>)
    /\ store = EmptyStore
    /\ last = NoOp
    /\ pre = EmptyStore
    /\ erased = EmptyStore
    /\ nops = 0
    /\ scope = "outside"
    /\ cmp = NoCmp
    /\ pair = NoPair
    /\ held = NoHeld

\* LineCoverageReport.__init__
LineCoverageReport_init(coverage_data, total_executable_lines) ==
    /\ ~report.valid
    /\ report' = [NoReport EXCEPT
                     !.valid = TRUE,
                     !.coverage_data = coverage_data,
                     !.total_executable_lines = total_executable_lines,
                     !.command = Report("CoverageReport").command]
    /\ last' = [op |-> "LineCoverageReport", tests |-> << >>, clean |-> FALSE]
    /\ UNCHANGED <<file_blocks, store, pre, erased, nops, scope, scan, cmp, pair, held>>

NextSnapshot ==
    \E coverage_data \in SnapshotMaps, total_executable_lines \in SnapshotMaps :
        LineCoverageReport_init(coverage_data, total_executable_lines)

SpecSnapshot == InitSnapshot /\ [][NextSnapshot]_vars

----------------------------------------------------------------------------
(* Comparisons of Blocks: a Block against every Block and against objects  *)
(* of other classes                                                        *)

\* Blocks over two files, the lines of a.py, two types and the two forms of
\* source text the visitor stores
BlockValues ==
    {Block(f, s, e, t, <<c, s, e>>) :
        f \in {"a.py", "b.py"}, s \in 1..SourceA.nlines,
        e \in 1..SourceA.nlines, t \in {"If", "Else"},
        c \in {"unparse", "lines"}}

\* the objects a Block is compared with: Blocks, tuples of the compared
\* fields, None
Objects ==
    {Object("Block", b) : b \in BlockValues}
    \cup {Object("tuple", BlockKey(b)) : b \in BlockValues}
    \cup {Object("NoneType", "None")}

InitBlock ==
    /\ \E self \in BlockValues, other \in Objects :
          cmp = [NoCmp EXCEPT !.self = self, !.other = other]
    /\ file_blocks = EmptyStore
    /\ scan = Scan(EmptyStore, << >>, FALSE, << >>, << >>)
    /\ store = EmptyStore
    /\ report = NoReport
    /\ last = NoOp
    /\ pre = EmptyStore
    /\ erased = EmptyStore
    /\ nops = 0
    /\ scope = "outside"
    /\ pair = NoPair
    /\ held = NoHeld

\* self == other, and the hashes a set or a dict takes of Blocks
compare ==
    /\ ~cmp.done
    /\ cmp' = [cmp EXCEPT !.done = TRUE,
                          !.eq = Block__eq__(cmp.self, cmp.other),
                          !.hash_self = Block__hash__(cmp.self),
                          !.hash_other = IF cmp.other.cls = "Block"
                                         THEN Block__hash__(cmp.other.value)
                                         ELSE "None"]
    /\ last' = [op |-> "compare", tests |-> << >>, clean |-> FALSE]
    /\ UNCHANGED <<file_blocks, store, report, pre, erased, nops, scope, scan, pair, held>>

NextBlock == compare

SpecBlock == InitBlock /\ [][NextBlock]_vars

----------------------------------------------------------------------------
(* Properties *)

\* the files a report is asked about: the project's, and one it never saw
QueryFiles == ProjectFiles \cup {"unknown.py"}

\* the blocks of the catalogue of a report
CatalogueBlocks(r) ==
    UNION {{r.total_executable_blocks[f][i] :
               i \in 1..Len(r.total_executable_blocks[f])} :
           f \in DOMAIN r.total_executable_blocks}

\* the positions of the covered blocks in the list of a file
CoveredPositions(r, file) ==
    {i \in 1..Len(BlocksOf(r, file)) : is_block_covered(r, BlocksOf(r, file)[i])}

\* the (file, line) pairs of a mapping of line sets
Pairs(m) == UNION {{<<f, l>> : l \in m[f]} : f \in DOMAIN m}

\* the measured files of the tests of a list and their executable lines run
\* by at least one of the tests
TracedBy(tests) ==
    LET files == UNION {DOMAIN tests[i] : i \in 1..Len(tests)} IN
    [f \in files |->
        {l \in ExecutableLines[f] :
            \E i \in 1..Len(tests) : l \in LinesOf(tests[i], f)}]

\* reset, then append_coverage of each test in list order
RECURSIVE AppendEach(_, _)
AppendEach(data, tests) ==
    IF tests = << >> THEN data
    ELSE AppendEach(AppendCoverageStore(data, tests[1]), Tail(tests))

ResetThenAppendEach(data, tests) == AppendEach(clean_coverage(data), tests)

\* C1: a block of the catalogue is covered if and only if some executed line
\* L of its file has start_line < L <= end_line; the header line alone is no
\* evidence.
C1_CoveredIffLineAfterHeader ==
    report.valid =>
        \A b \in CatalogueBlocks(report) :
            is_block_covered(report, b) <=>
                \E L \in LinesOf(report.coverage_data, b.file_path) :
                    b.start_line < L /\ L <= b.end_line

\* C1 witness: the only executed line inside a block's span is its header
\* line, and the block is not covered.
C1_HeaderOnlyWitness ==
    /\ report.valid
    /\ \E b \in CatalogueBlocks(report) :
          /\ b.start_line < b.end_line
          /\ LinesOf(report.coverage_data, b.file_path)
                \cap (b.start_line..b.end_line) = {b.start_line}
          /\ ~is_block_covered(report, b)

\* C2: in every returned snapshot the executed lines of a file are a subset
\* of the executable lines of that file.
C2_ExecutedWithinExecutable ==
    report.valid =>
        \A f \in DOMAIN report.coverage_data :
            /\ f \in DOMAIN report.total_executable_lines
            /\ report.coverage_data[f] \subseteq report.total_executable_lines[f]

\* C2 witness: a report was returned for a data file that holds a raw line
\* outside the executable lines of its file.
C2_RawLineDiscardedWitness ==
    /\ last.op \in {"get_coverage", "append_coverage"}
    /\ \E f \in DOMAIN store :
          /\ ~(store[f] \subseteq ExecutableLines[f])
          /\ report.coverage_data[f] # {}

\* C3: the report returned by append_coverage covers at least as many blocks
\* as the report of the data file as the append found it.
C3_AppendBlockMonotone ==
    last.op = "append_coverage" =>
        CoveredBlocks(report) >= CoveredBlocks(MakeReport(pre, file_blocks))

\* C3 witness: an append onto a data file that already covered blocks, after
\* which more blocks are covered.
C3_AppendGrowsWitness ==
    /\ last.op = "append_coverage"
    /\ CoveredBlocks(MakeReport(pre, file_blocks)) > 0
    /\ CoveredBlocks(report) > CoveredBlocks(MakeReport(pre, file_blocks))

\* C4: append_coverage keeps what the data file held: every file's executed
\* set in the returned snapshot is the union of its executed set before the
\* call and the executed lines of the new test.
C4_AppendIsUnion ==
    last.op = "append_coverage" =>
        LET before == analyze_coverage_data(pre).coverage_data
            new == analyze_coverage_data(last.tests[1]).coverage_data IN
        /\ DOMAIN report.coverage_data = DOMAIN before \cup DOMAIN new
        /\ \A f \in DOMAIN report.coverage_data :
              report.coverage_data[f] = LinesOf(before, f) \cup LinesOf(new, f)
        /\ \A f \in DOMAIN pre : f \in DOMAIN store /\ pre[f] \subseteq store[f]

\* C4 witness: an append where the data file and the new test each bring
\* an executed line of the same file that the other lacks.
C4_BothContributeWitness ==
    /\ last.op = "append_coverage"
    /\ \E f \in DOMAIN pre \cap DOMAIN last.tests[1] :
          LET before == analyze_coverage_data(pre).coverage_data[f]
              new == analyze_coverage_data(last.tests[1]).coverage_data[f] IN
          before \ new # {} /\ new \ before # {}

\* C5: get_coverage(tests) with clean left at its default leaves the data
\* file that reset followed by append_coverage of each test leaves, and its
\* executed sets are the union of the tests' traces and nothing else.
C5_GetIsResetThenAppendEach ==
    (last.op = "get_coverage" /\ last.clean) =>
        /\ store = ResetThenAppendEach(pre, last.tests)
        /\ report = MakeReport(ResetThenAppendEach(pre, last.tests), file_blocks)
        /\ report.coverage_data = TracedBy(last.tests)

\* C5 witness: get_coverage of two tests with different traces, on a data
\* file that held a line neither of them runs.
C5_TwoTestsWitness ==
    /\ last.op = "get_coverage" /\ last.clean
    /\ Len(last.tests) = 2
    /\ Pairs(TracedBy(<<last.tests[1]>>)) \ Pairs(TracedBy(<<last.tests[2]>>)) # {}
    /\ Pairs(TracedBy(<<last.tests[2]>>)) \ Pairs(TracedBy(<<last.tests[1]>>)) # {}
    /\ Pairs(analyze_coverage_data(pre).coverage_data)
          \ Pairs(report.coverage_data) # {}

\* C6: reset leaves the data file empty whatever it held, a reset of an empty
\* data file changes nothing, and get_coverage on the data file a reset left
\* returns executed lines of its own tests only.
C6_ResetErases ==
    /\ last.op = "reset" => store = EmptyStore
    /\ (last.op = "reset" /\ pre = EmptyStore) => store = pre
    /\ (last.op = "get_coverage" /\ pre = EmptyStore) =>
          report.coverage_data = TracedBy(last.tests)

\* C6 witness: a reset erased executed lines, and the get_coverage after it,
\* called with clean=False, returns a snapshot without one of them.
C6_NoLeakWitness ==
    /\ last.op = "get_coverage" /\ ~last.clean /\ last.tests # << >>
    /\ pre = EmptyStore
    /\ Pairs(report.coverage_data) # {}
    /\ Pairs(analyze_coverage_data(erased).coverage_data)
          \ Pairs(report.coverage_data) # {}

\* C7: block-level get_file_coverage(file) is the number of the file's
\* catalogue blocks that are covered over the number of its catalogue
\* blocks, and exactly 0.0 for a file with no blocks or unknown to the
\* catalogue.
C7_BlockFileCoverage ==
    report.valid =>
        \A file \in QueryFiles :
            BlockCoverageReport_get_file_coverage(report, file) =
                IF Len(BlocksOf(report, file)) = 0 THEN Zero
                ELSE Ratio(Cardinality(CoveredPositions(report, file)),
                           Len(BlocksOf(report, file)))

\* C7 witness: a report in which some blocks of b.py are covered and others
\* are not, and e.py has no blocks.
C7_PartialFileWitness ==
    /\ report.valid
    /\ BlocksOf(report, "e.py") = << >>
    /\ BlockCoverageReport_get_file_coverage(report, "e.py") = Zero
    /\ BlockCoverageReport_get_file_coverage(report, "unknown.py") = Zero
    /\ BlockCoverageReport_get_file_coverage(report, "b.py") = Ratio(4, 9)

\* C8: block-level get_total_coverage() is the number of covered blocks of
\* all files over the number of blocks of all files, 0.0 when the catalogue
\* has no block; with the one block of a.py covered and the nine blocks of
\* b.py uncovered it is 0.1.
C8_BlockTotalCoverage ==
    report.valid =>
        LET covered == Cardinality(
                {b \in CatalogueBlocks(report) : is_block_covered(report, b)})
            total == Cardinality(CatalogueBlocks(report)) IN
        /\ BlockCoverageReport_get_total_coverage(report) =
              IF total = 0 THEN Zero ELSE Ratio(covered, total)
        /\ ( /\ Len(BlocksOf(report, "a.py")) = 1
             /\ Len(BlocksOf(report, "b.py")) = 9
             /\ CoveredPositions(report, "a.py") = {1}
             /\ CoveredPositions(report, "b.py") = {} )
           => BlockCoverageReport_get_total_coverage(report) = Ratio(1, 10)

\* C8 witness: the one block of a.py is covered, none of the nine blocks of
\* b.py is, and b.py has been measured.
C8_OneOfTenWitness ==
    /\ report.valid
    /\ Len(BlocksOf(report, "a.py")) = 1
    /\ Len(BlocksOf(report, "b.py")) = 9
    /\ CoveredPositions(report, "a.py") = {1}
    /\ CoveredPositions(report, "b.py") = {}
    /\ LinesOf(report.coverage_data, "b.py") # {}
    /\ BlockCoverageReport_get_total_coverage(report) = Ratio(1, 10)

\* C9: line-level get_file_coverage(file) returns |executed[file]| over
\* |executable[file]|, and 0.0 for every file with no executed entries,
\* whether absent from the executed mapping or present with an empty
\* executed set, also when its executable set is empty.
C9_LineFileCoverage ==
    report.valid =>
        \A file \in QueryFiles :
            LineCoverageReport_get_file_coverage(report, file) =
                IF LinesOf(report.coverage_data, file) = {} THEN Zero
                ELSE Ratio(Cardinality(report.coverage_data[file]),
                           Cardinality(report.total_executable_lines[file]))

\* C10: line-level get_total_coverage() is the number of executed lines of
\* all files divided by the number of executable lines of all files.
C10_LineTotalCoverage ==
    report.valid =>
        LineCoverageReport_get_total_coverage(report) =
            Div(Cardinality(Pairs(report.coverage_data)),
                Cardinality(Pairs(report.total_executable_lines)))

\* C10 witness: a.py has both of its lines executed, b.py none of its
\* eleven: the total is 2/13, the mean of the per-file ratios would be 1/2.
C10_WeightedWitness ==
    /\ report.valid
    /\ DOMAIN report.coverage_data = {"a.py", "b.py"}
    /\ LineCoverageReport_get_file_coverage(report, "a.py") = Ratio(1, 1)
    /\ LineCoverageReport_get_file_coverage(report, "b.py") = Zero
    /\ LineCoverageReport_get_total_coverage(report) = Ratio(2, 13)

\* the tests of the last operation whose process exited with a non-zero code
FailedTests(op) ==
    {i \in 1..Len(op.tests) : returncode(op.tests[i]) # 0}

\* C11: when a test process of get_coverage or append_coverage exits
\* non-zero, the call still returns the report of the data file as the runs
\* left it, the data file is not rolled back, and the failure of the test is
\* reported to the caller beside the coverage numbers.
C11_RunFailureReported ==
    (last.op \in {"get_coverage", "append_coverage"} /\ FailedTests(last) # {}) =>
        /\ report = MakeReport(store, file_blocks)
        /\ store = IF last.op = "append_coverage"
                   THEN AppendCoverageStore(pre, last.tests[1])
                   ELSE GetCoverageStore(pre, last.tests, last.clean)
        /\ \/ report.successful = "False"
           \/ report.raised_exception # "None"

\* C13: after the scan of a directory, whatever the order of the files, a
\* file that does not parse has an entry with an empty Block list, and every
\* file that parses has the full Block list of its syntax tree.
C13_ScanContinuesPastSyntaxError ==
    scan.done =>
        /\ DOMAIN file_blocks = DOMAIN scan.files
        /\ \A f \in DOMAIN scan.files :
              file_blocks[f] = IF Content(scan.files[f]).parses
                               THEN visit(f, Content(scan.files[f]).tree)
                               ELSE << >>

\* C13 witness: the file that does not parse was visited first, and the two
\* files visited after it have their blocks.
C13_BadFileFirstWitness ==
    /\ scan.done
    /\ Len(scan.order) = 3
    /\ scan.files[scan.order[1]] = "S"
    /\ file_blocks[scan.order[1]] = << >>
    /\ Len(file_blocks[scan.order[2]]) = 7
    /\ Len(file_blocks[scan.order[3]]) = 9

\* the files of the scanned directory that do not parse
FailingFiles == {f \in DOMAIN scan.files : ~Content(scan.files[f]).parses}

\* C14: after the construction of the analyzer the caller finds one kept
\* ParseError for every file that did not parse, and no other.
C14_ParseErrorsKept ==
    scan.done =>
        /\ {scan.kept[i] : i \in DOMAIN scan.kept} = FailingFiles
        /\ Len(scan.kept) = Cardinality(FailingFiles)

\* the statements of a list of statements and all statements nested in them
RECURSIVE NodesOf(_)
NodesOf(nodes) ==
    IF nodes = << >> THEN {}
    ELSE {nodes[1]}
         \cup NodesOf(nodes[1].body \o nodes[1].handlers
                      \o nodes[1].orelse \o nodes[1].finalbody)
         \cup NodesOf(Tail(nodes))

\* the positions in a list of the blocks of another list
PositionsOf(list, blocks) ==
    {i \in 1..Len(list) : \E j \in 1..Len(blocks) : blocks[j] = list[i]}

\* C18: in the Block list of every scanned file start_line never decreases
\* from one entry to the next, and the blocks of a statement stand before
\* the blocks of the statements nested in it.
C18_SourceOrder ==
    scan.done =>
        \A f \in DOMAIN file_blocks :
            LET list == file_blocks[f] IN
            /\ \A i \in 1..(Len(list) - 1) :
                  list[i].start_line <= list[i + 1].start_line
            /\ \A n \in NodesOf(Content(scan.files[f]).tree.body) :
                  \A i \in PositionsOf(list, OwnBlocks(f, n)),
                     j \in PositionsOf(list, generic_visit(f, n)) : i < j

\* the statements of the files of the scanned directory
StatementsOf(f) == NodesOf(Content(scan.files[f]).tree.body)

\* the lines of a clause: its first statement's line to its last line
ClauseLines(clause) == clause[1].lineno..Last(clause).end_lineno

\* the catalogue block of the given type of the clause of file f
ClauseBlock(r, f, type, clause) ==
    CHOOSE b \in CatalogueBlocks(r) :
        /\ b.file_path = f
        /\ b.type = type
        /\ b.end_line = Last(clause).end_lineno

\* C15: the Finally block of every try statement with a finally clause is
\* covered exactly when some line of the finally body, its first line
\* included, is executed.
C15_FinallyWindow ==
    report.valid =>
        \A f \in DOMAIN report.total_executable_blocks :
            \A n \in {m \in StatementsOf(f) :
                          m.type = "Try" /\ m.finalbody # << >>} :
                is_block_covered(report, ClauseBlock(report, f, "Finally", n.finalbody))
                    <=> LinesOf(report.coverage_data, f)
                            \cap ClauseLines(n.finalbody) # {}

\* the trace of b.py in which the loop ends by break, and the trace in
\* which it runs to its end
BreakRun == RunB1
NoBreakRun == RunB2

\* C16: the Else block of every statement with an else clause is covered
\* exactly when some line of the else body, from its first statement's line
\* to its last line, is executed; for the loop of b.py it is covered by the
\* run without break and not covered by the run that breaks.
C16_ElseWindow ==
    report.valid =>
        /\ \A f \in DOMAIN report.total_executable_blocks :
              \A n \in {m \in StatementsOf(f) :
                            m.type \in ElseTypes /\ m.orelse # << >>} :
                  is_block_covered(report, ClauseBlock(report, f, "Else", n.orelse))
                      <=> LinesOf(report.coverage_data, f)
                              \cap ClauseLines(n.orelse) # {}
        /\ (store = NoBreakRun /\ "b.py" \in DOMAIN report.total_executable_blocks) =>
              \E b \in CatalogueBlocks(report) :
                  b.type = "Else" /\ is_block_covered(report, b)
        /\ store = BreakRun =>
              \A b \in CatalogueBlocks(report) :
                  b.type = "Else" => ~is_block_covered(report, b)

\* C16 witness: the run that breaks executed lines of the loop before its
\* else clause, and the Else block of the loop is not covered.
C16_BreakWitness ==
    /\ report.valid
    /\ store = BreakRun
    /\ \E b \in CatalogueBlocks(report) :
          /\ b.type = "Else"
          /\ ~is_block_covered(report, b)
          /\ \E L \in report.coverage_data["b.py"] : L < b.start_line
          /\ \E c \in CatalogueBlocks(report) :
                c.type = "For" /\ is_block_covered(report, c)

\* C17: a Block equals another Block exactly when file, start line, end line
\* and type agree, whatever their source text; Blocks that are equal have
\* the same hash; a Block equals no object of another class.
C17_BlockEquality ==
    cmp.done =>
        /\ cmp.other.cls = "Block" =>
              /\ cmp.eq <=>
                    /\ cmp.self.file_path = cmp.other.value.file_path
                    /\ cmp.self.start_line = cmp.other.value.start_line
                    /\ cmp.self.end_line = cmp.other.value.end_line
                    /\ cmp.self.type = cmp.other.value.type
              /\ cmp.eq => cmp.hash_self = cmp.hash_other
        /\ cmp.other.cls # "Block" => ~cmp.eq

\* C17 witness: two Blocks with different source text compared equal.
C17_DifferentTextWitness ==
    /\ cmp.done
    /\ cmp.other.cls = "Block"
    /\ cmp.self.code # cmp.other.value.code
    /\ cmp.eq
    /\ cmp.hash_self = cmp.hash_other

\* C12: in a line-level report with a file that has executed lines but no
\* entry of executable lines, get_file_coverage of that file and
\* get_total_coverage both raise instead of returning a ratio.
C12_InconsistentSnapshotRaises ==
    report.valid =>
        \A file \in DOMAIN report.coverage_data
                        \ DOMAIN report.total_executable_lines :
            /\ LineCoverageReport_get_file_coverage(report, file).error # ""
            /\ LineCoverageReport_get_total_coverage(report).error # ""

\* C19: __enter__ leaves the data file empty, the first measurement of the
\* body reports executed lines of its own tests only, and __exit__ leaves
\* the data file empty whether the body ended normally or by an exception.
C19_ScopeResets ==
    /\ last.op = "__enter__" => store = EmptyStore
    /\ (scope = "inside" /\ nops = 1
           /\ last.op \in {"get_coverage", "append_coverage"}) =>
          report.coverage_data = TracedBy(last.tests)
    /\ last.op = "__exit__" => store = EmptyStore

\* C19 witness: the body measured lines and ended by an exception, and
\* __exit__ erased them.
C19_ExitOnExceptionWitness ==
    /\ last.op = "__exit__"
    /\ last.exc_type = "Exception"
    /\ Pairs(erased) # {}
    /\ Pairs(report.coverage_data) # {}
    /\ store = EmptyStore

\* a query returned a number between 0.0 and 1.0
InUnitInterval(q) == q.error = "" /\ 0 <= q.num /\ q.num <= q.den

\* C20: in the report returned by get_coverage or append_coverage the
\* line-level total, the line-level ratio of every project file, the
\* block-level total and the block-level ratio of every catalogue file are
\* numbers between 0.0 and 1.0.
C20_RatiosInUnitInterval ==
    last.op \in {"get_coverage", "append_coverage"} =>
        /\ InUnitInterval(LineCoverageReport_get_total_coverage(report))
        /\ \A file \in ProjectFiles :
              InUnitInterval(LineCoverageReport_get_file_coverage(report, file))
        /\ InUnitInterval(BlockCoverageReport_get_total_coverage(report))
        /\ \A file \in DOMAIN report.total_executable_blocks :
              InUnitInterval(BlockCoverageReport_get_file_coverage(report, file))

\* a >= b for two ratios that are numbers
RatioGeq(a, b) == a.num * b.den >= b.num * a.den

\* both queries returned a number
BothNumbers(a, b) == a.error = "" /\ b.error = ""

\* a step of append_coverage taken when an earlier call had returned a report
AppendAfterReport == last'.op = "append_coverage" /\ report.valid

\* C21: the line-level total of the report append_coverage returns is at
\* least the line-level total of the report the preceding get_coverage or
\* append_coverage returned.
C21_LineTotalMonotone ==
    [][AppendAfterReport =>
         LET before == LineCoverageReport_get_total_coverage(report)
             after == LineCoverageReport_get_total_coverage(report') IN
         BothNumbers(before, after) => RatioGeq(after, before)]_vars

\* C21, amended: when the data file still is what the preceding report was
\* built from, append_coverage keeps every executed line of that report and
\* every executable line of it, and when the test adds no measured file the
\* total raises an error exactly when it did before and otherwise is not lower.
C21_ExecutedLinesMonotone ==
    [][(AppendAfterReport /\ report = MakeReport(store, file_blocks)) =>
         LET before == LineCoverageReport_get_total_coverage(report)
             after == LineCoverageReport_get_total_coverage(report') IN
         /\ Pairs(report.coverage_data) \subseteq Pairs(report'.coverage_data)
         /\ Pairs(report.total_executable_lines)
               \subseteq Pairs(report'.total_executable_lines)
         /\ DOMAIN report'.coverage_data = DOMAIN report.coverage_data =>
               /\ after.error = before.error
               /\ BothNumbers(before, after) => RatioGeq(after, before)]_vars

\* C21 witness: an append right after a measurement added no measured file
\* and executed a new line, and the total is higher than before.
C21_SameFilesWitness ==
    /\ last.op = "append_coverage"
    /\ nops >= 2
    /\ pre # EmptyStore
    /\ DOMAIN store = DOMAIN pre
    /\ LET before == LineCoverageReport_get_total_coverage(MakeReport(pre, file_blocks))
           after == LineCoverageReport_get_total_coverage(report) IN
       /\ BothNumbers(before, after)
       /\ RatioGeq(after, before) /\ ~RatioGeq(before, after)

\* C22: with different data files, no step of one analyzer changes the data
\* file of the other, and whenever an analyzer has finished a method its
\* data file and its report are those of the same calls made alone.
C22_SessionsIndependent ==
    [][\A s \in DOMAIN pair.sessions :
          /\ pair'.actor # s =>
                pair'.disk[Output(s)] = pair.disk[Output(s)]
          /\ pair'.sessions[s].todo = << >> =>
                /\ pair'.disk[Output(s)] = pair'.sessions[s].alone
                /\ pair'.sessions[s].report = pair'.sessions[s].alone_report]_vars

\* C22 witness: an analyzer entered a method while the other was inside
\* one; it has finished with a report of its own lines, the other is still
\* inside its method and has written its data file.
C22_InterleavedWitness ==
    /\ pair.overlapped
    /\ \E s \in DOMAIN pair.sessions, t \in DOMAIN pair.sessions :
          /\ s # t
          /\ pair.sessions[s].todo = << >>
          /\ pair.sessions[s].report.valid
          /\ pair.sessions[s].report = pair.sessions[s].alone_report
          /\ Pairs(pair.sessions[s].report.coverage_data) # {}
          /\ pair.sessions[t].todo # << >>
          /\ pair.disk[Output(t)] # EmptyStore
          /\ pair.disk[Output(t)] # pair.disk[Output(s)]

----------------------------------------------------------------------------
(* A caller that keeps a report while the analyzer is used further *)

\* every answer of a report: the covered blocks of each file, the line and
\* block ratios of each file, the two totals
Answers(r) ==
    [covered |-> [f \in QueryFiles |-> CoveredPositions(r, f)],
     line_file |-> [f \in QueryFiles |-> LineCoverageReport_get_file_coverage(r, f)],
     block_file |-> [f \in QueryFiles |-> BlockCoverageReport_get_file_coverage(r, f)],
     line_total |-> LineCoverageReport_get_total_coverage(r),
     block_total |-> BlockCoverageReport_get_total_coverage(r)]

\* the tests run while a report is held
HeldTests == {RunA, RunB2}

\* the report object seen now: its snapshot is its own dictionary, its
\* total_executable_blocks is the analyzer's file_blocks itself
Held(r) == [r EXCEPT !.total_executable_blocks = file_blocks]

\* the caller keeps the report just returned, with the answers it gives now
hold ==
    /\ report.valid
    /\ ~held.valid
    /\ held' = [valid |-> TRUE, report |-> report, answers |-> Answers(Held(report))]
    /\ UNCHANGED <<file_blocks, store, report, last, pre, erased, nops, scope,
                   scan, cmp, pair>>

NextHeld ==
    \/ reset
    \/ \E tests \in UNION {[1..n -> HeldTests] : n \in 0..MaxTests},
          clean \in BOOLEAN : get_coverage(tests, clean)
    \/ \E test \in HeldTests : append_coverage(test)
    \/ hold

SpecHeld == Init /\ [][NextHeld]_vars

\* C23: get_coverage, append_coverage and reset leave the block catalogue
\* the constructor built, and a report returned earlier gives after every
\* later call the answers it gave when it was returned (is_block_covered of
\* every block, the line and block ratios of every file, both totals).
C23_DerivedDataStable ==
    /\ file_blocks = collect_code_blocks_for_directory(Project)
    /\ held.valid => Answers(Held(held.report)) = held.answers

\* C23 witness: a report with covered blocks is held, and a later
\* get_coverage has returned a report with another snapshot.
C23_ReportOutlivesCallWitness ==
    /\ held.valid
    /\ last.op = "get_coverage"
    /\ report.coverage_data # held.report.coverage_data
    /\ store # EmptyStore
    /\ \E f \in QueryFiles : CoveredPositions(Held(held.report), f) # {}

\* the positions of the blocks of a list that stand for a statement itself
PrimaryPositions(list) ==
    {i \in 1..Len(list) : list[i].type \notin {"Else", "Finally"}}

\* the statements of a file whose node type has a visit_ method
Constructs(f) == {n \in StatementsOf(f) : n.type \in VisitedTypes}

\* C24: in the Block list of every scanned file each block has
\* 1 <= start_line <= end_line; every function, class, if, for, while, try,
\* with statement and async form, at any depth, has exactly one block that
\* is not an Else or Finally block and starts on its line, that block has
\* the statement's type and ends on the last line of the last statement of
\* its body; and there is no other such block.
C24_PrimaryBlocks ==
    scan.done =>
        \A f \in DOMAIN file_blocks :
            LET list == file_blocks[f]
                primary == PrimaryPositions(list) IN
            /\ \A i \in 1..Len(list) :
                  /\ 1 <= list[i].start_line
                  /\ list[i].start_line <= list[i].end_line
            /\ \A n \in Constructs(f) :
                  \E i \in primary :
                      /\ list[i].start_line = n.lineno
                      /\ list[i].type = BlockTypeOf(n.type)
                      /\ list[i].end_line = Last(n.body).end_lineno
                      /\ \A j \in primary :
                            list[j].start_line = n.lineno => j = i
            /\ Cardinality(primary) = Cardinality(Constructs(f))

\* C24 witness: a scanned file holds the async forms and the try statement
\* with handler, else and finally; its Try block is lines 7 to 8, and the
\* while loop inside the handler and the if inside except* have blocks.
C24_AllFormsWitness ==
    /\ scan.done
    /\ \E f \in DOMAIN file_blocks :
          /\ scan.files[f] = "D"
          /\ Len(file_blocks[f]) = 9
          /\ \E i \in 1..9 : BlockKey(file_blocks[f][i]) = <<f, 7, 8, "Try">>
          /\ \E i \in 1..9 : BlockKey(file_blocks[f][i]) = <<f, 10, 11, "While">>
          /\ \E i \in 1..9 : BlockKey(file_blocks[f][i]) = <<f, 19, 20, "If">>
          /\ \E i \in 1..9 : BlockKey(file_blocks[f][i]) = <<f, 2, 6, "Async With">>

\* the covered blocks of a file that span more than one line, from the
\* executed lines of the snapshot
MultiLineCovered(r, f) ==
    {BlockKey(BlocksOf(r, f)[i]) :
        i \in {j \in 1..Len(BlocksOf(r, f)) :
                 LET b == BlocksOf(r, f)[j] IN
                 /\ b.start_line < b.end_line
                 /\ LinesOf(r.coverage_data, f)
                        \cap ((b.start_line + 1)..b.end_line) # {}}}

\* C25: a block with start_line = end_line is not covered in any report,
\* whatever lines were executed, and the numerators of the file ratio and
\* of the total ratio count the covered blocks of more than one line only.
C25_SingleLineNeverCovered ==
    report.valid =>
        /\ \A f \in DOMAIN report.total_executable_blocks :
              LET blocks == BlocksOf(report, f) IN
              /\ \A i \in 1..Len(blocks) :
                    blocks[i].start_line = blocks[i].end_line
                        => ~is_block_covered(report, blocks[i])
              /\ BlockCoverageReport_get_file_coverage(report, f) =
                    IF Len(blocks) = 0 THEN Zero
                    ELSE Div(Cardinality(MultiLineCovered(report, f)), Len(blocks))
        /\ BlockCoverageReport_get_total_coverage(report) =
              IF SumLen(report.total_executable_blocks) = 0 THEN Zero
              ELSE Div(SumCard([f \in DOMAIN report.total_executable_blocks |->
                                   MultiLineCovered(report, f)]),
                       SumLen(report.total_executable_blocks))

\* C25 witness: lines 4 and 13 of b.py, the lines of the one-line if and of
\* the one-line finally body, were executed; neither block is covered while
\* other blocks of the file are.
C25_OneLineBlocksRunWitness ==
    /\ report.valid
    /\ "b.py" \in DOMAIN report.total_executable_blocks
    /\ {4, 13} \subseteq LinesOf(report.coverage_data, "b.py")
    /\ \E i \in 1..Len(BlocksOf(report, "b.py")) :
          /\ BlockKey(BlocksOf(report, "b.py")[i]) = <<"b.py", 4, 4, "If">>
          /\ i \notin CoveredPositions(report, "b.py")
    /\ \E i \in 1..Len(BlocksOf(report, "b.py")) :
          /\ BlockKey(BlocksOf(report, "b.py")[i]) = <<"b.py", 13, 13, "Finally">>
          /\ i \notin CoveredPositions(report, "b.py")
    /\ CoveredPositions(report, "b.py") # {}

\* C27: for two blocks A and B of the catalogue of a file with
\* A.start_line < B.start_line and B.end_line <= A.end_line, B covered
\* implies A covered.
C27_NestedCoverage ==
    report.valid =>
        \A f \in DOMAIN report.total_executable_blocks :
            LET blocks == BlocksOf(report, f) IN
            \A i, j \in 1..Len(blocks) :
                (/\ blocks[i].start_line < blocks[j].start_line
                 /\ blocks[j].end_line <= blocks[i].end_line
                 /\ is_block_covered(report, blocks[j]))
                    => is_block_covered(report, blocks[i])

\* C27 witness: only lines 1 and 6 of b.py were executed: the with block
\* (5, 6) is covered, and so are the for loop, the method and the class
\* around it; the while loop and the try statement are not.
C27_InnermostRunWitness ==
    /\ report.valid
    /\ "b.py" \in DOMAIN report.total_executable_blocks
    /\ LinesOf(report.coverage_data, "b.py") = {1, 6}
    /\ {BlockKey(BlocksOf(report, "b.py")[i]) :
           i \in CoveredPositions(report, "b.py")}
         = {<<"b.py", 5, 6, "With">>, <<"b.py", 3, 6, "For">>,
            <<"b.py", 2, 13, "Function">>, <<"b.py", 1, 13, "Class">>}

\* C26: get_coverage(tests, clean=False) with at least one test returns
\* executed sets that hold every executed line the data file held before
\* the call and every executed line of the tests.
C26_NoCleanKeepsData ==
    (last.op = "get_coverage" /\ ~last.clean /\ Len(last.tests) >= 1) =>
        LET before == analyze_coverage_data(pre).coverage_data IN
        /\ Pairs(before) \subseteq Pairs(report.coverage_data)
        /\ Pairs(TracedBy(last.tests)) \subseteq Pairs(report.coverage_data)

\* the query returned a number
Returned(q) == q.error = ""

\* C28: on the report returned by get_coverage or append_coverage, for every
\* tests list and every data file, get_total_coverage and get_file_coverage
\* of every file, line-level and block-level, return a number and do not
\* raise.
C28_RatioQueriesReturn ==
    last.op \in {"get_coverage", "append_coverage"} =>
        /\ Returned(LineCoverageReport_get_total_coverage(report))
        /\ Returned(BlockCoverageReport_get_total_coverage(report))
        /\ \A file \in QueryFiles :
              /\ Returned(LineCoverageReport_get_file_coverage(report, file))
              /\ Returned(BlockCoverageReport_get_file_coverage(report, file))

====
